---- MODULE Spec2Model ----
(***************************************************************************)
(* A model of the cross-source news verifier (src/src/news_verifier.py,    *)
(* class NewsVerifier) and of the way src/main.py holds one long-lived     *)
(* instance of it.                                                         *)
(*                                                                         *)
(* Text.  A title or a body is a sequence of words; f"{title} {body}" is   *)
(* their concatenation.  Words are written in Latin transliteration        *)
(* ("raipur" is the source's Devanagari word for Raipur, "police" the one  *)
(* for police, ...).  `keyword in text` is a substring test: it is modelled *)
(* as "some word of the text is the keyword or has it inside", with the    *)
(* inside-relation of the vocabulary tabulated in Inside (computed with    *)
(* Python's `in` on the source's own strings).  The regular expressions of *)
(* extract_key_elements are tabulated per word in WordElements (computed   *)
(* with Python's re.findall on the source's own patterns; no pattern       *)
(* matches across the space between two words of the vocabulary).          *)
(*                                                                         *)
(* Numbers.  Floats are modelled as exact fractions <<numerator,           *)
(* denominator>> with a positive denominator; importance values are kept   *)
(* in tenths (3.0 is 30).                                                  *)
(***************************************************************************)
EXTENDS Integers, Naturals, Sequences, FiniteSets, TLC

----------------------------------------------------------------------------
(* Sequence helpers *)

Range(s) == {s[i] : i \in 1..Len(s)}

RECURSIVE SumSeq(_)
SumSeq(s) == IF s = <<>> THEN 0 ELSE Head(s) + SumSeq(Tail(s))

RECURSIVE Flatten(_)
Flatten(ss) == IF ss = <<>> THEN <<>> ELSE Head(ss) \o Flatten(Tail(ss))

----------------------------------------------------------------------------
(* Fractions *)

Abs(n) == IF n < 0 THEN -n ELSE n

RECURSIVE Gcd(_, _)
Gcd(a, b) == IF b = 0 THEN a ELSE Gcd(b, a % b)

(* n/d in lowest terms, d > 0 *)
Frac(n, d) ==
  LET g == Gcd(Abs(n), d)
  IN  <<n \div g, d \div g>>

FAdd(a, b) == Frac(a[1] * b[2] + b[1] * a[2], a[2] * b[2])
FMul(a, b) == Frac(a[1] * b[1], a[2] * b[2])
FDiv(a, k) == Frac(a[1], a[2] * k)
FGt(a, b) == a[1] * b[2] > b[1] * a[2]
FGe(a, b) == a[1] * b[2] >= b[1] * a[2]
FEq(a, b) == a[1] * b[2] = b[1] * a[2]

----------------------------------------------------------------------------
(* NewsVerifier.__init__: the keyword tables *)

opinion_keywords ==
  << "chahiye", "kathit", "vichar", "rai", "manna", "lagta", "sambhavna",
     "anuman", "atkal", "sandeh", "shayad", "ho sakta", "mana ja raha",
     "sutron ke anusar", "afwah", "dawa", "aarop" >>

(* the categories in the insertion order of the category_weights dict *)
CategoryOrder ==
  << "crime", "politics", "accident", "development", "weather", "health",
     "education" >>

category_weights ==
  [ crime       |-> << "apradh", "giraftar", "hatya", "chori", "thagi", "fraud",
                       "police", "cbi" >>,
    politics    |-> << "niti", "sarkar", "mukhyamantri", "mantri", "vidhayak",
                       "chunav", "rajniti" >>,
    accident    |-> << "durghatna", "hadsa", "maut", "ghayal", "aspatal",
                       "ambulance" >>,
    development |-> << "vikas", "pariyojana", "yojana", "nirman", "sadak",
                       "pul", "aspatal" >>,
    weather     |-> << "mausam", "barish", "toofan", "baadh", "sookha",
                       "alert" >>,
    health      |-> << "swasthya", "bimari", "doctor", "ilaj", "vaccine",
                       "aspatal" >>,
    education   |-> << "shiksha", "school", "college", "pariksha", "chhatra",
                       "shikshak" >> ]

(* importance_weights of categorize_article, in tenths *)
importance_weights ==
  [ crime |-> 30, accident |-> 28, politics |-> 25, development |-> 20,
    health |-> 18, weather |-> 15, education |-> 13, general |-> 10 ]

----------------------------------------------------------------------------
(* The vocabulary of the model's texts *)

Locations ==
  << "raipur", "bilaspur", "durg", "bhilai", "korba", "rajnandgaon",
     "jagdalpur", "ambikapur", "chhattisgarh", "bastar", "sarguja",
     "dantewada", "narayanpur", "bijapur", "sukma" >>

(* <<k, w>>: keyword k occurs strictly inside word w *)
Inside ==
  { <<"mantri", "mukhyamantri">>, <<"niti", "rajniti">>, <<"pul", "police">>,
    <<"rai", "raipur">>, <<"rai", "narayanpur">>, <<"yojana", "pariyojana">> }

(* len(word) in code points *)
WordLen(w) ==
  CASE w = "raipur" -> 6        [] w = "bilaspur" -> 8   [] w = "durg" -> 5
    [] w = "bhilai" -> 5        [] w = "korba" -> 5      [] w = "rajnandgaon" -> 11
    [] w = "jagdalpur" -> 7     [] w = "ambikapur" -> 9  [] w = "chhattisgarh" -> 9
    [] w = "bastar" -> 5        [] w = "sarguja" -> 6    [] w = "dantewada" -> 9
    [] w = "narayanpur" -> 9    [] w = "bijapur" -> 7    [] w = "sukma" -> 5
    [] w = "police" -> 5        [] w = "giraftar" -> 8   [] w = "hatya" -> 5
    [] w = "mantri" -> 6        [] w = "mukhyamantri" -> 11
    [] w = "rajniti" -> 7       [] w = "sarkar" -> 5     [] w = "maut" -> 3
    [] w = "aspatal" -> 7       [] w = "barish" -> 5     [] w = "doctor" -> 6
    [] w = "school" -> 5        [] w = "kathit" -> 4     [] w = "afwah" -> 5
    [] w = "dawa" -> 4          [] w = "khabar" -> 3     [] w = "log" -> 3
    [] w = "apradh" -> 5
    [] OTHER -> 4

(* the third location pattern (\w+pur | \w+garh | ...) also finds the tail of
   a place name that starts after a vowel sign, which \w does not match *)
LocationTail(w) ==
  CASE w = "raipur" -> {"raipur_tail4"}
    [] w = "bilaspur" -> {"bilaspur_tail4"}
    [] w = "chhattisgarh" -> {"chhattisgarh_tail4"}
    [] w = "narayanpur" -> {"narayanpur_tail5"}
    [] OTHER -> {}

(* what the patterns of extract_key_elements find in one word *)
WordElements(w) ==
  [ who   |-> IF w \in {"police", "mantri", "mukhyamantri"} THEN {w} ELSE {},
    what  |-> IF w \in {"giraftar", "hatya"} THEN {w} ELSE {},
    where |-> IF w \in Range(Locations) THEN {w} \cup LocationTail(w) ELSE {},
    when  |-> {} ]

----------------------------------------------------------------------------
(* Articles.  A raw article is a record [source, title, body, timestamp];  *)
(* the url field is carried through untouched by the verifier and is left  *)
(* out.  A record may lack a field, as a dict may lack a key.  A timestamp *)
(* is a number from 1 up (ISO-8601 strings of one format compare as the    *)
(* instants do); the empty string, smaller than every timestamp, is 0.     *)

(* a default that stands in the text for a missing body *)
GetOrNone(article, key, default) ==
  IF key \in DOMAIN article THEN article[key]
  ELSE IF key = "body" THEN <<"None">> ELSE default

(* article.get(key, default) *)
Get(article, key, default) ==
  IF key \in DOMAIN article THEN article[key] ELSE default

(* article.get('title', ''), article.get('body', ''),
   article.get('timestamp', '') *)
Title(article) == Get(article, "title", <<>>)
Body(article) == Get(article, "body", <<>>)
Timestamp(article) == Get(article, "timestamp", 0)

(* f"{title} {body}" *)
TextOf(article) == Title(article) \o Body(article)

(* len(body): the words' code points and the spaces between them *)
BodyLen(article) ==
  LET b == Body(article)
  IN  IF b = <<>> THEN 0
      ELSE SumSeq([i \in 1..Len(b) |-> WordLen(b[i])]) + (Len(b) - 1)

(* `keyword in text` *)
Contains(keyword, text) ==
  \E i \in 1..Len(text) : text[i] = keyword \/ <<keyword, text[i]>> \in Inside

(* sum(1 for keyword in keywords if keyword in text) *)
KeywordHits(keywords, text) ==
  Cardinality({i \in 1..Len(keywords) : Contains(keywords[i], text)})

(* NewsVerifier.is_opinion_piece *)
OpinionCount(article) == KeywordHits(opinion_keywords, TextOf(article))

(* is_opinion_piece with its bound off by one *)
is_opinion_piece_lenient(article) == OpinionCount(article) > 3

is_opinion_piece(article) == OpinionCount(article) > 2

(* the matches of one field's patterns in a text, as the set that
   calculate_similarity makes of the list *)
ElementsIn(text, field) == UNION {WordElements(text[i])[field] : i \in 1..Len(text)}

(* NewsVerifier.extract_key_elements *)
extract_key_elements(article) ==
  [ who   |-> ElementsIn(TextOf(article), "who"),
    what  |-> ElementsIn(TextOf(article), "what"),
    where |-> ElementsIn(TextOf(article), "where"),
    when  |-> ElementsIn(TextOf(article), "when") ]

----------------------------------------------------------------------------
(* NewsVerifier.categorize_article *)

(* category_scores: the categories with a score above 0, in dict order *)
CategoryScore(c, text) == KeywordHits(category_weights[c], text)

Scored(text) ==
  {i \in 1..Len(CategoryOrder) : CategoryScore(CategoryOrder[i], text) > 0}

(* the first category with any hit, whatever the scores *)
BestCategoryFirstHit(text) ==
  CategoryOrder[CHOOSE i \in Scored(text) : \A j \in Scored(text) : i <= j]

(* a max that keeps the last of the keys with the highest score *)
BestCategoryLast(text) ==
  LET S == Scored(text)
      top == CHOOSE i \in S :
               /\ \A j \in S : CategoryScore(CategoryOrder[j], text)
                                 <= CategoryScore(CategoryOrder[i], text)
               /\ \A j \in S : j > i =>
                     CategoryScore(CategoryOrder[j], text)
                       < CategoryScore(CategoryOrder[i], text)
  IN  CategoryOrder[top]

(* max(category_scores, key=category_scores.get): the first key, in insertion
   order, whose score no other key exceeds *)
BestCategory(text) ==
  LET S == Scored(text)
      top == CHOOSE i \in S :
               /\ \A j \in S : CategoryScore(CategoryOrder[j], text)
                                 <= CategoryScore(CategoryOrder[i], text)
               /\ \A j \in S : j < i =>
                     CategoryScore(CategoryOrder[j], text)
                       < CategoryScore(CategoryOrder[i], text)
  IN  CategoryOrder[top]

(* categorize_article without its `if not category_scores` branch: max() of
   an empty dict raises *)
categorize_article_unguarded(article) ==
  LET text == TextOf(article)
  IN  IF Scored(text) = {} THEN <<"ValueError", 0>>
      ELSE <<BestCategory(text), importance_weights[BestCategory(text)]>>

categorize_article(article) ==
  LET text == TextOf(article)
  IN  IF Scored(text) = {} THEN <<"general", 10>>
      ELSE <<BestCategory(text), importance_weights[BestCategory(text)]>>

----------------------------------------------------------------------------
(* NewsVerifier.get_text_embedding.  env is what the run meets outside the *)
(* program: env.fail, the texts on which model inference raises, and       *)
(* env.zero, the texts whose hash(text) % 1000 is 0 in this process.       *)

HashRange == 1000

(* a number that stands for the text: the sum of its words' lengths *)
TextCode(text) == SumSeq([i \in 1..Len(text) |-> WordLen(text[i])])

(* a hash reduced with a remainder that keeps the sign of the hash *)
HashProxySigned(text, env) ==
  IF text \in env.zero THEN 0
  ELSE IF TextCode(text) % 2 = 0 THEN 1 + (TextCode(text) % (HashRange - 1))
  ELSE 0 - (1 + (TextCode(text) % (HashRange - 1)))

(* hash(text) % 1000: Python salts str hashes per process, so the value is
   any of 0..999; only whether it is 0 changes a cosine of 1-vectors *)
HashProxy(text, env) ==
  IF text \in env.zero THEN 0 ELSE 1 + (TextCode(text) % (HashRange - 1))

(* the CLS vector of the pretrained network, which is not part of the
   repository: a fixed deterministic table of vectors of norm 5 *)
ModelVectors ==
  << <<5, 0>>, <<3, 4>>, <<3, 4>>, <<-3, -4>>, <<0, -5>>, <<4, 3>> >>

ModelEmbedding(text) == ModelVectors[(TextCode(text) % Len(ModelVectors)) + 1]

get_text_embedding(text, model, env) ==
  IF ~model THEN <<HashProxy(text, env)>>
  ELSE IF text \in env.fail THEN <<HashProxy(text, env)>>
  ELSE ModelEmbedding(text)

----------------------------------------------------------------------------
(* sklearn's cosine_similarity on two row vectors *)

Dot(u, v) == SumSeq([i \in 1..Len(u) |-> u[i] * v[i]])

(* the Euclidean norm; exact on the vectors of the model *)
Norm(u) ==
  IF Len(u) = 1 THEN Abs(u[1])
  ELSE CHOOSE r \in 0..Dot(u, u) : r * r = Dot(u, u)

(* normalize() leaves a zero row as it is: it divides by 1 *)
SafeNorm(u) == IF Norm(u) = 0 THEN 1 ELSE Norm(u)

(* check_pairwise_arrays raises ValueError when the widths differ *)
CosineRaises(u, v) == Len(u) # Len(v)

cosine_similarity(u, v) == Frac(Dot(u, v), SafeNorm(u) * SafeNorm(v))

----------------------------------------------------------------------------
(* NewsVerifier.calculate_similarity *)

Fields == <<"who", "what", "where", "when">>

(* the fields both articles have elements in *)
SharedFields(e1, e2) == {i \in 1..Len(Fields) : e1[Fields[i]] # {} /\ e2[Fields[i]] # {}}

(* the overlap taken over the first article's elements only *)
JaccardOfFirst(a, b) == Frac(Cardinality(a \cap b), Cardinality(a))

(* len(common) / len(total) *)
Jaccard(a, b) == Frac(Cardinality(a \cap b), Cardinality(a \cup b))

RECURSIVE SumJaccard(_, _, _)
SumJaccard(e1, e2, todo) ==
  IF todo = {} THEN Frac(0, 1)
  ELSE LET i == CHOOSE x \in todo : TRUE
       IN  FAdd(Jaccard(e1[Fields[i]], e2[Fields[i]]),
                SumJaccard(e1, e2, todo \ {i}))

(* the sum divided by the number of fields, whatever fields are shared *)
ElementSimilarityOverAll(a1, a2) ==
  LET e1 == extract_key_elements(a1)
      e2 == extract_key_elements(a2)
  IN  FDiv(SumJaccard(e1, e2, SharedFields(e1, e2)), Len(Fields))

(* element_similarity after the division by total_elements *)
ElementSimilarity(a1, a2) ==
  LET e1 == extract_key_elements(a1)
      e2 == extract_key_elements(a2)
      shared == SharedFields(e1, e2)
  IN  IF shared = {} THEN Frac(0, 1)
      ELSE FDiv(SumJaccard(e1, e2, shared), Cardinality(shared))

SimilarityRaises(a1, a2, model, env) ==
  CosineRaises(get_text_embedding(TextOf(a1), model, env),
               get_text_embedding(TextOf(a2), model, env))

(* final_similarity = similarity * 0.7 + element_similarity * 0.3 *)
calculate_similarity(a1, a2, model, env) ==
  FAdd(FMul(cosine_similarity(get_text_embedding(TextOf(a1), model, env),
                              get_text_embedding(TextOf(a2), model, env)),
            Frac(7, 10)),
       FMul(ElementSimilarity(a1, a2), Frac(3, 10)))

----------------------------------------------------------------------------
(* NewsVerifier.verify_with_sources: the grouping loop.  articles is the   *)
(* list it is given; a group is the list of the positions of its members.  *)

(* the comparison written as >= *)
AtOrAboveThreshold(sim) == FGe(sim, Frac(8, 10))

(* `similarity > 0.8` *)
AboveThreshold(sim) == FGt(sim, Frac(8, 10))

(* `len(group) >= 3` *)
MinSources == 3

(* a pair accepted as a cluster *)
EnoughSourcesPair(group) == Len(group) >= MinSources - 1

EnoughSources(group) == Len(group) >= MinSources

(* the inner loop without processed.add(j): a member stays free for later
   seeds *)
RECURSIVE ScanUnmarked(_, _, _, _, _, _, _)
ScanUnmarked(articles, i, j, group, processed, model, env) ==
  IF j > Len(articles) THEN [raised |-> FALSE, group |-> group, processed |-> processed]
  ELSE IF j \in processed THEN ScanUnmarked(articles, i, j + 1, group, processed, model, env)
  ELSE IF SimilarityRaises(articles[i], articles[j], model, env)
       THEN [raised |-> TRUE, group |-> group, processed |-> processed]
  ELSE IF AboveThreshold(calculate_similarity(articles[i], articles[j], model, env))
       THEN ScanUnmarked(articles, i, j + 1, Append(group, j), processed, model, env)
  ELSE ScanUnmarked(articles, i, j + 1, group, processed, model, env)

(* the inner loop comparing each candidate with the member taken last
   instead of the seed *)
RECURSIVE ScanChained(_, _, _, _, _, _, _)
ScanChained(articles, i, j, group, processed, model, env) ==
  IF j > Len(articles) THEN [raised |-> FALSE, group |-> group, processed |-> processed]
  ELSE IF j \in processed THEN ScanChained(articles, i, j + 1, group, processed, model, env)
  ELSE IF SimilarityRaises(articles[group[Len(group)]], articles[j], model, env)
       THEN [raised |-> TRUE, group |-> group, processed |-> processed]
  ELSE IF AboveThreshold(calculate_similarity(articles[group[Len(group)]], articles[j],
                                              model, env))
       THEN ScanChained(articles, i, j + 1, Append(group, j), processed \cup {j}, model, env)
  ELSE ScanChained(articles, i, j + 1, group, processed, model, env)

(* the inner loop leaving at the first candidate that does not resemble the
   seed *)
RECURSIVE ScanUntilMiss(_, _, _, _, _, _, _)
ScanUntilMiss(articles, i, j, group, processed, model, env) ==
  IF j > Len(articles) THEN [raised |-> FALSE, group |-> group, processed |-> processed]
  ELSE IF j \in processed THEN ScanUntilMiss(articles, i, j + 1, group, processed, model, env)
  ELSE IF SimilarityRaises(articles[i], articles[j], model, env)
       THEN [raised |-> TRUE, group |-> group, processed |-> processed]
  ELSE IF AboveThreshold(calculate_similarity(articles[i], articles[j], model, env))
       THEN ScanUntilMiss(articles, i, j + 1, Append(group, j), processed \cup {j}, model, env)
  ELSE [raised |-> FALSE, group |-> group, processed |-> processed]

(* the inner loop from candidate j on, for the seed at position i *)
RECURSIVE Scan(_, _, _, _, _, _, _)
Scan(articles, i, j, group, processed, model, env) ==
  IF j > Len(articles) THEN [raised |-> FALSE, group |-> group, processed |-> processed]
  ELSE IF j \in processed THEN Scan(articles, i, j + 1, group, processed, model, env)
  ELSE IF SimilarityRaises(articles[i], articles[j], model, env)
       THEN [raised |-> TRUE, group |-> group, processed |-> processed]
  ELSE IF AboveThreshold(calculate_similarity(articles[i], articles[j], model, env))
       THEN Scan(articles, i, j + 1, Append(group, j), processed \cup {j}, model, env)
  ELSE Scan(articles, i, j + 1, group, processed, model, env)

(* the outer loop from seed i on; groups.kept is article_groups so far and
   groups.formed every `group` the loop has built, kept or dropped *)
RECURSIVE GroupFrom(_, _, _, _, _, _)
GroupFrom(articles, i, processed, groups, model, env) ==
  IF i > Len(articles)
  THEN [raised |-> FALSE, groups |-> groups.kept, formed |-> groups.formed]
  ELSE IF i \in processed THEN GroupFrom(articles, i + 1, processed, groups, model, env)
  ELSE LET r == Scan(articles, i, i + 1, <<i>>, processed \cup {i}, model, env)
       IN  IF r.raised
           THEN [raised |-> TRUE, groups |-> groups.kept, formed |-> groups.formed]
           ELSE GroupFrom(articles, i + 1, r.processed,
                          [ kept   |-> IF EnoughSources(r.group)
                                       THEN Append(groups.kept, r.group)
                                       ELSE groups.kept,
                            formed |-> Append(groups.formed, r.group) ],
                          model, env)

(* article_groups = [] *)
NoGroups == [kept |-> <<>>, formed |-> <<>>]

(* a grouping that takes its first seed before the loop: it raises on an
   empty list *)
ArticleGroupsSeeded(articles, model, env) ==
  IF articles = <<>> THEN [raised |-> TRUE, groups |-> <<>>, formed |-> <<>>]
  ELSE GroupFrom(articles, 1, {}, NoGroups, model, env)

ArticleGroups(articles, model, env) == GroupFrom(articles, 1, {}, NoGroups, model, env)

(* the key reduced to the timestamp *)
CanonicalKeyByTimestamp(a, b) == Timestamp(a) < Timestamp(b)

(* the key of max(group, key=...): (len(body), timestamp) *)
CanonicalKeyLess(a, b) ==
  \/ BodyLen(a) < BodyLen(b)
  \/ BodyLen(a) = BodyLen(b) /\ Timestamp(a) < Timestamp(b)

(* max() keeps the first of the members no other member exceeds *)
BestOf(articles, group) ==
  LET k == CHOOSE k \in 1..Len(group) :
             /\ \A m \in 1..Len(group) :
                  ~CanonicalKeyLess(articles[group[k]], articles[group[m]])
             /\ \A m \in 1..(k - 1) :
                  CanonicalKeyLess(articles[group[m]], articles[group[k]])
  IN  group[k]

(* the count added to the one the dict already carries *)
VerifiedAccumulating(articles, group) ==
  LET best == articles[BestOf(articles, group)]
      cat == categorize_article(best)
  IN  [ verified     |-> TRUE,
        source_count |-> Get(best, "source_count", 0) + Len(group),
        sources      |-> [m \in 1..Len(group) |-> articles[group[m]].source],
        category     |-> cat[1],
        importance   |-> cat[2] ] @@ best

(* the sources of the other members only, best_article's own left out *)
VerifiedOthers(articles, group) ==
  LET best == articles[BestOf(articles, group)]
      cat == categorize_article(best)
      others == SelectSeq(group, LAMBDA m : m # BestOf(articles, group))
  IN  [ verified     |-> TRUE,
        source_count |-> Len(group),
        sources      |-> [m \in 1..Len(others) |-> articles[others[m]].source],
        category     |-> cat[1],
        importance   |-> cat[2] ] @@ best

(* the fields verify_with_sources sets on best_article *)
Verified(articles, group) ==
  LET best == articles[BestOf(articles, group)]
      cat == categorize_article(best)
  IN  [ verified |-> TRUE,
        source_count |-> Len(group),
        sources |-> [m \in 1..Len(group) |-> articles[group[m]].source],
        category |-> cat[1],
        importance |-> cat[2] ] @@ best

----------------------------------------------------------------------------
(* NewsVerifier.verify_news: filter, rank, truncate *)

(* factual_articles, as the positions in raw_articles of the articles kept *)
RECURSIVE FactualFrom(_, _)
FactualFrom(raw, i) ==
  IF i > Len(raw) THEN <<>>
  ELSE (IF is_opinion_piece(raw[i]) THEN <<>> ELSE <<i>>) \o FactualFrom(raw, i + 1)

Factual(raw) == FactualFrom(raw, 1)

(* the sort key reduced to the timestamp *)
RankLessByTimestamp(a, b) == Timestamp(a) < Timestamp(b)

(* the sort key (x.get('importance', 1.0), x.get('timestamp', '')) *)
RankLess(a, b) ==
  \/ Get(a, "importance", 10) < Get(b, "importance", 10)
  \/ Get(a, "importance", 10) = Get(b, "importance", 10) /\ Timestamp(a) < Timestamp(b)

(* list.sort(key=..., reverse=True) is stable: x goes before the first
   element whose key is smaller than its own.  The lists hold positions of
   objs, the objects sorted. *)
RECURSIVE InsertDesc(_, _, _)
InsertDesc(x, sorted, objs) ==
  IF sorted = <<>> THEN <<x>>
  ELSE IF RankLess(objs[Head(sorted)], objs[x]) THEN <<x>> \o sorted
  ELSE <<Head(sorted)>> \o InsertDesc(x, Tail(sorted), objs)

RECURSIVE SortDesc(_, _, _)
SortDesc(todo, sorted, objs) ==
  IF todo = <<>> THEN sorted
  ELSE SortDesc(Tail(todo), InsertDesc(Head(todo), sorted, objs), objs)

(* verified_articles[:8] *)
TopN == 8

(* the slice taken from the wrong end: the last TopN of the list *)
TruncateTail(list) ==
  SubSeq(list, IF Len(list) < TopN THEN 1 ELSE Len(list) - TopN + 1, Len(list))

(* the slice forgotten *)
TruncateForgotten(list) == list

Truncate(list) == SubSeq(list, 1, IF Len(list) < TopN THEN Len(list) ELSE TopN)

(* What one call computes before it persists.  Python lists hold references:
   best_article is one of the dicts of raw_articles and is changed in place,
   so the lists are kept as positions in raw_articles and `objects` is
   raw_articles after the call. *)
Compute(raw, model, env) ==
  LET factual == Factual(raw)
      articles == [k \in 1..Len(factual) |-> raw[factual[k]]]
      g == ArticleGroups(articles, model, env)
      n == Len(g.groups)
      best == [c \in 1..n |-> factual[BestOf(articles, g.groups[c])]]
      objects == [i \in 1..Len(raw) |->
                    IF \E c \in 1..n : best[c] = i
                    THEN Verified(articles, g.groups[CHOOSE c \in 1..n : best[c] = i])
                    ELSE raw[i]]
      ranked == SortDesc(best, <<>>, objects)
  IN  [ raised   |-> g.raised,
        factual  |-> factual,
        groups   |-> [c \in 1..n |->
                        [m \in 1..Len(g.groups[c]) |-> factual[g.groups[c][m]]]],
        formed   |-> [c \in 1..Len(g.formed) |->
                        [m \in 1..Len(g.formed[c]) |-> factual[g.formed[c][m]]]],
        verified |-> IF g.raised THEN <<>> ELSE best,
        objects  |-> IF g.raised THEN raw ELSE objects,
        final    |-> IF g.raised THEN <<>> ELSE Truncate(ranked) ]

----------------------------------------------------------------------------
(* ContentAuditSystem (content_audit_system.py).  A text is the list of its *)
(* tokens: words without punctuation, or runs of white space, so that a     *)
(* word between \b and \b is a token equal to it.                           *)

(* self.prohibited_content: the categories in the order of the dict, each
   with its words in the order of its list *)
AuditCategories ==
  << "profanity", "controversial_unverified", "slangs", "abusive_language",
     "inappropriate_casual", "sensational_words" >>

prohibited_content ==
  [ profanity |->
      << "shit", "fuck", "damn", "hell", "ass", "bitch", "bastard", "crap",
         "piss", "bloody", "motherfucker", "asshole", "madarchod",
         "bhenchod", "chutiya", "randi", "saala", "kamina", "harami",
         "kutta", "kutti", "gandu", "lodu", "bhosdi" >>,
    controversial_unverified |->
      << "terrorist", "extremist", "jihadi", "radical", "fundamentalist",
         "separatist", "insurgent", "militant", "anti-national", "traitor",
         "enemy", "threat", "dangerous", "suspicious" >>,
    slangs |->
      << "lol", "lmao", "wtf", "omg", "bruh", "yolo", "swag", "lit",
         "fire", "sick", "dope", "cool", "awesome", "epic", "savage",
         "noob", "troll", "hater" >>,
    abusive_language |->
      << "idiot", "fool", "stupid", "moron", "dumb", "retard", "loser",
         "failure", "worthless", "useless", "pathetic", "disgusting",
         "horrible", "terrible", "awful", "nasty" >>,
    inappropriate_casual |->
      << "gonna", "wanna", "gotta", "dunno", "yeah", "nah", "sup", "hey",
         "yo", "dude", "bro", "sis", "guys" >>,
    sensational_words |->
      << "shocking", "unbelievable", "incredible", "amazing",
         "mind-blowing", "jaw-dropping", "stunning", "explosive",
         "bombshell", "sensational", "dramatic", "outrageous" >> ]

(* self.professional_replacements *)
professional_replacements ==
  [ shit |-> "situation", damn |-> "concerning",
    hell |-> "difficult situation", awesome |-> "significant",
    cool |-> "notable", shocking |-> "concerning",
    unbelievable |-> "significant", amazing |-> "notable",
    guys |-> "people", gonna |-> "going to", wanna |-> "want to" ]

(* self.sensitive_patterns: each is \b(first)\s+(second)\b, one word of
   `first`, white space, one word of `second` *)
sensitive_patterns ==
  << [first |-> {"kill", "murder", "death"}, second |-> {"all", "every"}],
     [first |-> {"hate", "destroy", "eliminate"}, second |-> {"them", "those"}],
     [first |-> {"fake", "false", "lie"}, second |-> {"news", "media", "report"}],
     [first |-> {"corrupt", "criminal"}, second |-> {"government", "police", "official"}] >>

(* a run of white space *)
Blank == " "

(* str.lower() on a token *)
Lower(token) ==
  CASE token = "Damn" -> "damn"
    [] token = "FAKE" -> "fake"
    [] OTHER -> token

(* not text or not text.strip() *)
IsEmptyContent(text) == \A i \in 1..Len(text) : text[i] = Blank

(* text.lower(), as the list of its words *)
TextLower(text) ==
  LET words == SelectSeq(text, LAMBDA t : t # Blank)
  IN  [i \in 1..Len(words) |-> Lower(words[i])]

(* re.search(r'\b' + re.escape(word.lower()) + r'\b', text_lower) *)
WordFound(word, lowered) == \E i \in 1..Len(lowered) : lowered[i] = word

(* re.search(pattern, text_lower) for a sensitive pattern *)
PatternFound(p, lowered) ==
  \E i \in 1..(Len(lowered) - 1) : lowered[i] \in p.first /\ lowered[i + 1] \in p.second

(* flagged_in_category *)
FlaggedInCategory(category, lowered) ==
  SelectSeq(prohibited_content[category], LAMBDA w : WordFound(w, lowered))

(* audit_result as it is built at the head of audit_text_content *)
NewAuditResult(content_type) ==
  [ content_type           |-> content_type,
    is_clean               |-> TRUE,
    flagged_categories     |-> <<>>,
    flagged_words          |-> <<>>,
    flagged_patterns       |-> <<>>,
    severity               |-> "none",
    requires_reprocessing  |-> FALSE,
    suggested_replacements |-> <<>> ]

(* severity from the categories flagged *)
Severity(categories) ==
  IF \E i \in 1..Len(categories) : categories[i] \in {"profanity", "abusive_language"}
  THEN "high"
  ELSE IF \E i \in 1..Len(categories) :
            categories[i] \in {"controversial_unverified", "sensational_words"}
  THEN "medium"
  ELSE "low"

(* audit_result of a text that is not empty *)
AuditResult(text, content_type) ==
  LET lowered == TextLower(text)
      categories == SelectSeq(AuditCategories,
                              LAMBDA c : FlaggedInCategory(c, lowered) # <<>>)
      words == Flatten([c \in 1..Len(AuditCategories) |->
                          FlaggedInCategory(AuditCategories[c], lowered)])
      patterns == SelectSeq([k \in 1..Len(sensitive_patterns) |-> k],
                            LAMBDA k : PatternFound(sensitive_patterns[k], lowered))
  IN  [ content_type           |-> content_type,
        is_clean               |-> categories = <<>> /\ patterns = <<>>,
        flagged_categories     |-> categories,
        flagged_words          |-> words,
        flagged_patterns       |-> patterns,
        severity               |-> IF words # <<>> THEN Severity(categories) ELSE "none",
        requires_reprocessing  |-> words # <<>>,
        suggested_replacements |->
          [w \in Range(words) \cap DOMAIN professional_replacements |->
             professional_replacements[w]] ]

(* the statistics with a flagged audio counted under no counter *)
UpdateStatisticsSummaryOnly(stats, is_clean, content_type) ==
  LET counted == [stats EXCEPT !.total_audits = @ + 1]
  IN  IF ~is_clean
      THEN IF content_type = "summary"
           THEN [counted EXCEPT !.flagged_summaries = @ + 1]
           ELSE counted
      ELSE [counted EXCEPT !.clean_items = @ + 1]

(* "Update statistics" *)
UpdateStatistics(stats, is_clean, content_type) ==
  LET counted == [stats EXCEPT !.total_audits = @ + 1]
  IN  IF ~is_clean
      THEN IF content_type = "summary"
           THEN [counted EXCEPT !.flagged_summaries = @ + 1]
           ELSE IF content_type = "mp3_transcription"
           THEN [counted EXCEPT !.flagged_mp3 = @ + 1]
           ELSE counted
      ELSE [counted EXCEPT !.clean_items = @ + 1]

(* audit_text_content(text, content_type) on an instance whose audit_stats
   are stats: what it returns and the audit_stats it leaves *)
audit_text_content(text, content_type, stats) ==
  IF IsEmptyContent(text)
  THEN [ result |-> [NewAuditResult(content_type) EXCEPT
                       !.is_clean = FALSE,
                       !.flagged_categories = <<"empty_content">>],
         stats  |-> stats ]
  ELSE LET result == AuditResult(text, content_type)
       IN  [ result |-> result,
             stats  |-> UpdateStatistics(stats, result.is_clean, content_type) ]

----------------------------------------------------------------------------
(* The inputs of the model *)

MaxPool == 3
MaxBulk == 9
MaxDay == 1
MaxBody == 1

(* a report of an arrest in Raipur *)
TextArrest == [title |-> <<"raipur">>, body |-> <<"police", "giraftar">>]
(* the same report with one hedging word; with the "rai" inside "raipur"
   it holds 2 opinion keywords *)
TextHedged == [title |-> <<"raipur">>, body |-> <<"police", "giraftar", "kathit">>]
(* the same report as a rumour: 3 opinion keywords *)
TextRumour ==
  [title |-> <<"raipur">>, body |-> <<"police", "giraftar", "kathit", "afwah">>]
(* another event in Raipur: shares the place, not the actor nor the act *)
TextMinister == [title |-> <<"raipur">>, body |-> <<"mantri", "hatya">>]
(* a text in which no pattern and no keyword matches *)
TextPlain == [title |-> <<"khabar">>, body |-> <<"log">>]

Texts == {TextArrest, TextHedged, TextRumour, TextMinister, TextPlain}

BulkWords == <<"sarkar", "maut", "barish", "doctor", "khabar", "apradh">>

(* the k-th of a series of unrelated events, one per place *)
BulkText(k) ==
  [title |-> <<Locations[k]>>, body |-> <<BulkWords[((k - 1) % Len(BulkWords)) + 1]>>]

(* texts, one article each; the sources are all different or all the same,
   the timestamps rise or fall along the list *)
MkPool(texts, sameSource, rising) ==
  [i \in 1..Len(texts) |->
     [ source    |-> IF sameSource THEN 1 ELSE i,
       title     |-> texts[i].title,
       body      |-> texts[i].body,
       timestamp |-> IF rising THEN i ELSE Len(texts) + 1 - i ]]

SmallPools ==
  {MkPool(t, s, r) : t \in UNION {[1..k -> Texts] : k \in 0..MaxPool},
                     s \in BOOLEAN, r \in BOOLEAN}

(* n events, each reported three times *)
BulkTexts(n) == Flatten([k \in 1..n |-> <<BulkText(k), BulkText(k), BulkText(k)>>])

BulkPools == {MkPool(BulkTexts(n), FALSE, r) : n \in 1..MaxBulk, r \in BOOLEAN}

(* one text reported three times, with one more article before or after *)
TriplePools ==
  {MkPool(<<x, t, t, t>>, s, r) : x \in Texts, t \in Texts, s \in BOOLEAN, r \in BOOLEAN}
    \cup {MkPool(<<t, t, t, x>>, s, r) : x \in Texts, t \in Texts,
                                         s \in BOOLEAN, r \in BOOLEAN}

(* the record without the fields of `drop` *)
Without(article, drop) == [k \in (DOMAIN article) \ drop |-> article[k]]

(* one report three times, from three sources; each article may lack its
   body, its timestamp or both *)
DegradedTriples ==
  { [i \in 1..3 |-> Without(MkPool(<<TextArrest, TextArrest, TextArrest>>, FALSE, r)[i],
                            d[i])] :
      d \in [1..3 -> SUBSET {"body", "timestamp"}], r \in BOOLEAN }

(* two events, three reports each, no article with a timestamp *)
DegradedBulk ==
  { [i \in 1..6 |-> Without(MkPool(BulkTexts(2), FALSE, TRUE)[i], {"timestamp"})] }

DegradedPools == DegradedTriples \cup DegradedBulk

(* the same arrest with a minister among the actors: two actors, one act *)
TextRaid == [title |-> <<"raipur">>, body |-> <<"police", "mantri", "giraftar">>]

(* reports in which the raid resembles the arrest and the minister's case,
   which do not resemble each other; one more article than MaxPool *)
ChainPools ==
  {MkPool(t, FALSE, TRUE) : t \in [1..MaxPool + 1 -> {TextArrest, TextRaid, TextMinister}]}

Pools == SmallPools \cup TriplePools \cup BulkPools \cup DegradedPools \cup ChainPools

(* the pools of the daily runs *)
DailyPools ==
  { <<>>,
    MkPool(<<TextArrest, TextArrest, TextHedged>>, FALSE, TRUE),
    MkPool(BulkTexts(2), FALSE, TRUE) }

AtMostOne(S) == {{}} \cup {{x} : x \in S}

(* what a run can meet: with the model loaded, inference may raise on a
   text; a text that falls back to the hash may have the proxy 0 *)
EnvsOver(T, model) ==
  IF model
  THEN UNION {{[fail |-> F, zero |-> Z] : Z \in AtMostOne(F)} : F \in AtMostOne(T)}
  ELSE {[fail |-> {}, zero |-> Z] : Z \in AtMostOne(T)}

(* what a run can meet on the texts it embeds, those of the articles kept *)
Envs(raw, model) ==
  EnvsOver({TextOf(raw[i]) : i \in {j \in 1..Len(raw) : ~is_opinion_piece(raw[j])}}, model)

(* a second text in which no pattern matches *)
TextNotice == [title |-> <<"log">>, body |-> <<"khabar", "log">>]

(* the articles given to calculate_similarity alone *)
SimilarityArticles ==
  { [source |-> 1, title |-> t.title, body |-> t.body, timestamp |-> 1] :
      t \in Texts \cup {TextRaid, TextNotice} }

(* the words of the articles given to categorize_article alone *)
CategoryWords ==
  { "giraftar", "hatya", "police", "sarkar", "mukhyamantri", "maut", "aspatal",
    "barish", "doctor", "school", "khabar" }

(* a title of at most one word and a body of at most MaxBody words *)
CategoryArticles ==
  { [source |-> 1, title |-> t, body |-> b, timestamp |-> 1] :
      t \in UNION {[1..k -> CategoryWords] : k \in 0..1},
      b \in UNION {[1..k -> CategoryWords] : k \in 0..MaxBody} }

(* how the write of n records ends: it succeeds, open() raises, or the dump
   raises after `written` records have reached the file *)
IoOk(n) == [fails |-> "none", written |-> n]

IoFailures(n) ==
  {[fails |-> "open", written |-> 0]} \cup {[fails |-> "dump", written |-> k] : k \in 0..n}

(* the ends the write may take, on a disk that may fail or on one that does not *)
IoOutcomes(n, faulty) == IF faulty THEN {IoOk(n)} \cup IoFailures(n) ELSE {IoOk(n)}

MaxAudits == 4

(* the texts given to audit_text_content: empty, white space only, clean,
   with prohibited words of each category, with a sensitive pattern *)
AuditTexts ==
  { <<>>, <<Blank>>, <<Blank, Blank>>,
    <<"news">>, <<"class">>, <<Blank, "news", "report">>,
    <<"Damn", "news">>, <<"threat">>, <<"cool", "guys">>,
    <<"stupid", Blank, "news">>, <<"shocking", "news">>, <<"FAKE", "news">> }

(* content_type as the callers pass it *)
ContentTypes == {"summary", "mp3_transcription"}

----------------------------------------------------------------------------
(* The state *)

VARIABLES
  clock,      \* the calendar day (Asia/Kolkata) it is now
  today,      \* self.today of the NewsVerifier instance
  model,      \* whether self.tokenizer and self.model were loaded
  files,      \* files[d]: the file verified_news_<d>.json
  phase,      \* "idle", or "done" once verify_news has returned or raised
  pool,       \* raw_articles as they were passed to the call
  objects,    \* the same dicts after the call
  env,        \* what the call met (inference failures, hash values)
  outcome,    \* what the call did
  answer,     \* what a single function call returned, <<>> before it
  audit_stats \* self.audit_stats of the ContentAuditSystem instance

vars ==
  <<clock, today, model, files, phase, pool, objects, env, outcome, answer, audit_stats>>

Days == 0..MaxDay

Absent == [exists |-> FALSE, complete |-> FALSE, records |-> <<>>]

NoEnv == [fail |-> {}, zero |-> {}]

NoOutcome ==
  [ status |-> "none", error |-> "none", factual |-> <<>>, groups |-> <<>>,
    formed |-> <<>>, verified |-> <<>>, final |-> <<>>, result |-> <<>>, path |-> -1, day |-> -1 ]

(* ContentAuditSystem(): the audit statistics *)
NoAudits ==
  [ total_audits |-> 0, flagged_summaries |-> 0, flagged_mp3 |-> 0,
    reprocessed_items |-> 0, clean_items |-> 0 ]

(* NewsVerifier(): today is read once, the model is loaded or fails to;
   ContentAuditSystem(): nothing audited yet *)
Init ==
  /\ clock = 0
  /\ today = 0
  /\ model \in BOOLEAN
  /\ files = [d \in Days |-> Absent]
  /\ phase = "idle"
  /\ pool = <<>>
  /\ objects = <<>>
  /\ env = NoEnv
  /\ outcome = NoOutcome
  /\ answer = <<>>
  /\ audit_stats = NoAudits

(* open(f'verified_news_{self.today}.json', 'w') and json.dump *)
Written(old, records, io) ==
  CASE io.fails = "open" -> old
    [] io.fails = "dump" ->
         [exists |-> TRUE, complete |-> FALSE, records |-> SubSeq(records, 1, io.written)]
    [] OTHER -> [exists |-> TRUE, complete |-> TRUE, records |-> records]

(* the file the call writes *)
OutputPath == today

(* one call of verify_news(raw) whose computation is c: it persists the
   final list unless the grouping raised *)
Finish(raw, e, io, c, result) ==
  /\ phase' = "done"
  /\ pool' = raw
  /\ env' = e
  /\ objects' = c.objects
  /\ IF c.raised
     THEN /\ files' = files
          /\ outcome' = [ status |-> "raised", error |-> "ValueError",
                          factual |-> c.factual, groups |-> c.groups,
                          formed |-> c.formed,
                          verified |-> <<>>, final |-> <<>>, result |-> <<>>,
                          path |-> -1, day |-> clock ]
     ELSE /\ files' = [files EXCEPT ![OutputPath] = Written(@, result, io)]
          /\ outcome' = [ status |-> IF io.fails = "none" THEN "returned" ELSE "raised",
                          error |-> IF io.fails = "none" THEN "none" ELSE "OSError",
                          factual |-> c.factual, groups |-> c.groups,
                          formed |-> c.formed,
                          verified |-> c.verified, final |-> c.final,
                          result |-> IF io.fails = "none" THEN result ELSE <<>>,
                          path |-> OutputPath, day |-> clock ]
  /\ UNCHANGED <<audit_stats, clock, today, model, answer>>

(* one call of verify_news(raw), on a disk that may fail or on one that does
   not *)
VerifyNews(raw, e, faulty) ==
  /\ phase = "idle"
  /\ \E c \in {Compute(raw, model, e)} :
       \E result \in {[k \in 1..Len(c.final) |-> c.objects[c.final[k]]]} :
         \E io \in IoOutcomes(Len(c.final), faulty) : Finish(raw, e, io, c, result)

(* the scheduler comes back for its next call *)
NextCall ==
  /\ phase = "done"
  /\ phase' = "idle"
  /\ pool' = <<>>
  /\ objects' = <<>>
  /\ env' = NoEnv
  /\ outcome' = NoOutcome
  /\ UNCHANGED <<audit_stats, clock, today, model, files, answer>>

(* midnight passes *)
Tick ==
  /\ phase = "idle"
  /\ clock < MaxDay
  /\ clock' = clock + 1
  /\ UNCHANGED <<audit_stats, today, model, files, phase, pool, objects, env, outcome, answer>>

(* the bot is started anew: ChhattisgarhNewsBot.__init__ makes a NewsVerifier *)
Restart ==
  /\ phase = "idle"
  /\ today' = clock
  /\ model' \in BOOLEAN
  /\ UNCHANGED <<audit_stats, clock, files, phase, pool, objects, env, outcome, answer>>

(* one call on any pool, its write succeeding *)
Verify ==
  /\ phase = "idle"
  /\ \E raw \in Pools : \E e \in Envs(raw, model) : VerifyNews(raw, e, FALSE)

Next == Verify

Spec == Init /\ [][Next]_vars

(* the bot over the days: calls on a few pools, any end of the write *)
VerifyDaily ==
  /\ phase = "idle"
  /\ \E raw \in DailyPools : \E e \in Envs(raw, model) : VerifyNews(raw, e, TRUE)

NextDaily == VerifyDaily \/ NextCall \/ Tick \/ Restart

SpecDaily == Init /\ [][NextDaily]_vars

(* categorize_article called on its own *)
Categorize ==
  /\ phase = "idle"
  /\ \E article \in CategoryArticles :
       /\ pool' = <<article>>
       /\ answer' = categorize_article(article)
  /\ phase' = "done"
  /\ UNCHANGED <<audit_stats, clock, today, model, files, objects, env, outcome>>

NextCategorize == Categorize

SpecCategorize == Init /\ [][NextCategorize]_vars

(* what one call of calculate_similarity(a1, a2) gives: a value, or the
   ValueError of cosine_similarity *)
SimilarityCall(a1, a2, e) ==
  IF SimilarityRaises(a1, a2, model, e)
  THEN [raised |-> TRUE, value |-> Frac(0, 1)]
  ELSE [raised |-> FALSE, value |-> calculate_similarity(a1, a2, model, e)]

(* calculate_similarity called on its own, on a pair and on the pair turned
   round, in one process *)
Compare ==
  /\ phase = "idle"
  /\ \E a1 \in SimilarityArticles : \E a2 \in SimilarityArticles :
       \E e \in EnvsOver({TextOf(a1), TextOf(a2)}, model) :
         /\ pool' = <<a1, a2>>
         /\ env' = e
         /\ answer' = <<SimilarityCall(a1, a2, e), SimilarityCall(a2, a1, e)>>
  /\ phase' = "done"
  /\ UNCHANGED <<audit_stats, clock, today, model, files, objects, outcome>>

NextCompare == Compare

SpecCompare == Init /\ [][NextCompare]_vars

(* the pools of the repeated calls *)
RepeatPools ==
  DailyPools \cup DegradedBulk
    \cup {p \in DegradedTriples : \A i \in 2..3 : {"body", "timestamp"} \subseteq DOMAIN p[i]}

(* the caller keeps what the call returned and the list it passed, to call
   again *)
KeepResult ==
  /\ phase = "done"
  /\ answer = <<>>
  /\ answer' = <<[pool |-> pool, objects |-> objects, env |-> env, outcome |-> outcome]>>
  /\ phase' = "idle"
  /\ UNCHANGED <<audit_stats, clock, today, model, files, pool, objects, env, outcome>>

(* the lists the next call may be given: any pool, or, when the caller has
   kept a list, that very list, whose dicts the earlier call has written to,
   or an equal list of fresh dicts *)
RepeatInputs == IF answer = <<>> THEN RepeatPools ELSE {answer[1].pool, answer[1].objects}

(* what the call meets: the process is the same, so a call on the kept list
   meets what the first call met *)
RepeatEnvs(raw) == IF answer = <<>> THEN Envs(raw, model) ELSE {answer[1].env}

(* one call of verify_news in a process that calls it again and again *)
VerifyRepeat ==
  /\ phase = "idle"
  /\ \E raw \in RepeatInputs : \E e \in RepeatEnvs(raw) : VerifyNews(raw, e, FALSE)

NextRepeat == VerifyRepeat \/ NextCall \/ KeepResult

SpecRepeat == Init /\ [][NextRepeat]_vars

(* other orders of the list `raw`: the list turned round by any number
   of places, and the list reversed *)
Orders(raw) ==
  { [i \in 1..Len(raw) |-> raw[((i + k - 1) % Len(raw)) + 1]] : k \in 0..(Len(raw) - 1) }
    \cup { [i \in 1..Len(raw) |-> raw[Len(raw) + 1 - i]] }

(* the accepted clusters of a list whose computation is c, each as the set
   of the sources of its members; in ChainPools the source tells the
   articles apart *)
ClustersOf(raw, c) ==
  [ raised   |-> c.raised,
    clusters |-> { {raw[c.groups[k][m]].source : m \in 1..Len(c.groups[k])} :
                     k \in 1..Len(c.groups) },
    verified |-> Len(c.verified) ]

(* the lists the next call of a reordering is given: a pool, then the same
   pool in another order *)
ReorderInputs == IF answer = <<>> THEN ChainPools ELSE Orders(pool)

(* verify_with_sources on a pool of articles, and again on the same pool in
   another order, in one process; pool is the list of the first call,
   objects that of the last *)
Reorder ==
  /\ Len(answer) < 2
  /\ \E raw \in ReorderInputs : \E c \in {Compute(raw, model, NoEnv)} :
       /\ pool' = IF answer = <<>> THEN raw ELSE pool
       /\ objects' = raw
       /\ answer' = Append(answer, ClustersOf(raw, c))
  /\ phase' = "done"
  /\ UNCHANGED <<audit_stats, clock, today, model, files, env, outcome>>

NextReorder == Reorder

SpecReorder == Init /\ [][NextReorder]_vars

(* one call of audit_text_content, by audit_mp3_content, by
   comprehensive_content_audit or from outside *)
AuditTextContent ==
  /\ audit_stats.total_audits < MaxAudits
  /\ \E text \in AuditTexts : \E content_type \in ContentTypes :
       \E r \in {audit_text_content(text, content_type, audit_stats)} :
         /\ pool' = <<[text |-> text, content_type |-> content_type]>>
         /\ answer' = r.result
         /\ audit_stats' = r.stats
  /\ UNCHANGED <<clock, today, model, files, phase, objects, env, outcome>>

NextAudit == AuditTextContent

SpecAudit == Init /\ [][NextAudit]_vars

----------------------------------------------------------------------------
(* What the claims speak of *)

Done == phase = "done"

Returned == phase = "done" /\ outcome.status = "returned"

(* the list verify_news returned *)
Result == outcome.result

(* factual_articles of the call *)
FactualArticles == [k \in 1..Len(outcome.factual) |-> pool[outcome.factual[k]]]

(* the similarity of two articles of the call, when computing it does not raise *)
Comparable(a, b) == ~SimilarityRaises(a, b, model, env)

Sim(a, b) == calculate_similarity(a, b, model, env)

(* the scan of the first seed, which meets every later article unprocessed *)
FirstScan == Scan(FactualArticles, 1, 2, <<1>>, {1}, model, env)

(* C1: for every list of raw articles, verify_news returns at most 8
   VerifiedArticles. *)
C1_AtMostEight == Returned => Len(Result) <= 8

(* more than 8 clusters were accepted and 8 articles came back *)
C1_Witness == Returned /\ Len(outcome.verified) > 8 /\ Len(Result) = 8

(* C2: a group is emitted only if it has at least 3 members: every returned
   VerifiedArticle has source_count >= 3, and an input of only 2 articles
   yields an empty output. *)
C2_AtLeastThreeMembers ==
  Returned =>
    /\ \A k \in 1..Len(Result) : Result[k].source_count >= 3
    /\ \A c \in 1..Len(outcome.groups) : Len(outcome.groups[c]) >= 3
    /\ Len(pool) = 2 => Result = <<>>

(* two articles with one text and two sources, similar above the threshold,
   and nothing returned *)
C2_Witness ==
  /\ Returned
  /\ Len(pool) = 2
  /\ outcome.factual = <<1, 2>>
  /\ Title(pool[1]) = Title(pool[2]) /\ Body(pool[1]) = Body(pool[2])
  /\ pool[1].source # pool[2].source
  /\ Comparable(pool[1], pool[2])
  /\ FGt(Sim(pool[1], pool[2]), Frac(8, 10))
  /\ Result = <<>>

(* C3: the sources list of every emitted VerifiedArticle holds at least 3
   distinct source ids. *)
C3_ThreeDistinctSources ==
  Returned => \A k \in 1..Len(Result) : Cardinality(Range(Result[k].sources)) >= 3

(* three articles, one title and body, three sources, not an opinion piece *)
ThreeIdentical(raw) ==
  /\ Len(raw) = 3
  /\ \A i \in 2..3 : Title(raw[i]) = Title(raw[1]) /\ Body(raw[i]) = Body(raw[1])
  /\ Cardinality({raw[i].source : i \in 1..3}) = 3
  /\ OpinionCount(raw[1]) <= 2

(* C4: three articles with the same title and body and three different
   sources, and no others, give exactly one accepted cluster and exactly one
   VerifiedArticle with source_count 3, whatever the text and the embedder. *)
C4_ThreeIdenticalAccepted ==
  (Done /\ ThreeIdentical(pool)) =>
     /\ outcome.status = "returned"
     /\ Len(outcome.groups) = 1
     /\ Len(Result) = 1
     /\ Result[1].source_count = 3

(* C5: an article with more than 2 opinion keywords is removed before
   clustering: it is in no group, is no canonical article, and its source is
   not counted; an article with 2 or fewer is kept. *)
C5_OpinionExcluded ==
  Done =>
    /\ \A i \in 1..Len(pool) :
         IF OpinionCount(pool[i]) > 2
         THEN /\ i \notin Range(outcome.factual)
              /\ \A c \in 1..Len(outcome.groups) : i \notin Range(outcome.groups[c])
              /\ i \notin Range(outcome.verified)
              /\ objects[i] = pool[i]
         ELSE i \in Range(outcome.factual)
    /\ \A c \in 1..Len(outcome.verified) :
         LET g == outcome.groups[c]
             v == objects[outcome.verified[c]]
         IN  /\ v.source_count = Len(g)
             /\ v.sources = [m \in 1..Len(g) |-> pool[g[m]].source]

(* an opinion piece that resembles the seed of an accepted cluster, which has
   a member with exactly 2 opinion keywords *)
C5_Witness ==
  /\ Returned
  /\ \E i \in 1..Len(pool) : \E c \in 1..Len(outcome.groups) :
       /\ OpinionCount(pool[i]) > 2
       /\ Comparable(pool[outcome.groups[c][1]], pool[i])
       /\ FGt(Sim(pool[outcome.groups[c][1]], pool[i]), Frac(8, 10))
       /\ \E m \in 1..Len(outcome.groups[c]) : OpinionCount(pool[outcome.groups[c][m]]) = 2
       /\ Result # <<>>

(* C6, as claimed: a candidate whose similarity to the seed is exactly 0.8 is
   added to the seed's group and marked processed. *)
C6_InclusiveThreshold ==
  (Done /\ outcome.error # "ValueError") =>
     \A j \in 2..Len(FactualArticles) :
        FEq(Sim(FactualArticles[1], FactualArticles[j]), Frac(8, 10)) =>
           j \in Range(FirstScan.group) /\ j \in FirstScan.processed

(* C6, amended: the threshold is exclusive.  A candidate is added to the
   seed's group and marked processed exactly when its similarity to the seed
   is greater than 0.8; at exactly 0.8 it is left out, and no accepted
   cluster holds a member at or below 0.8 from its seed. *)
C6_ExclusiveThreshold ==
  (Done /\ outcome.error # "ValueError") =>
     /\ \A j \in 2..Len(FactualArticles) :
          LET above == FGt(Sim(FactualArticles[1], FactualArticles[j]), Frac(8, 10))
          IN  /\ j \in Range(FirstScan.group) <=> above
              /\ j \in FirstScan.processed <=> above
     /\ \A c \in 1..Len(outcome.groups) : \A m \in 2..Len(outcome.groups[c]) :
          FGt(Sim(pool[outcome.groups[c][1]], pool[outcome.groups[c][m]]), Frac(8, 10))

(* the first seed's cluster is accepted and an article at exactly 0.8 from
   the seed is not in it *)
C6_Witness ==
  /\ Returned
  /\ Len(outcome.groups) >= 1
  /\ outcome.groups[1][1] = outcome.factual[1]
  /\ \E j \in 2..Len(FactualArticles) :
       /\ FEq(Sim(FactualArticles[1], FactualArticles[j]), Frac(8, 10))
       /\ outcome.factual[j] \notin Range(outcome.groups[1])

(* the categories whose score no category exceeds *)
TopCategories(text) ==
  {c \in Range(CategoryOrder) :
     /\ CategoryScore(c, text) > 0
     /\ \A d \in Range(CategoryOrder) : CategoryScore(d, text) <= CategoryScore(c, text)}

(* the first category of `order` among the top ones *)
FirstOf(order, text) ==
  order[CHOOSE i \in 1..Len(order) :
          /\ order[i] \in TopCategories(text)
          /\ \A j \in 1..(i - 1) : order[j] \notin TopCategories(text)]

Categorized == Done /\ answer # <<>> /\ TopCategories(TextOf(pool[1])) # {}

(* C7, as claimed: among the categories with the highest count, categorize
   picks the first in the order crime > accident > politics > development >
   health > weather > education. *)
C7_ImportanceOrder ==
  Categorized =>
     answer[1] = FirstOf(<<"crime", "accident", "politics", "development",
                           "health", "weather", "education">>, TextOf(pool[1]))

(* C7, amended: among the categories with the highest count, categorize
   picks the first in the order in which category_weights lists them:
   crime > politics > accident > development > weather > health > education. *)
C7_ListingOrder ==
  Categorized =>
     answer[1] = FirstOf(<<"crime", "politics", "accident", "development",
                           "weather", "health", "education">>, TextOf(pool[1]))

(* accident and politics tie for the highest count and politics is picked *)
C7_Witness ==
  /\ Categorized
  /\ {"accident", "politics"} \subseteq TopCategories(TextOf(pool[1]))
  /\ "crime" \notin TopCategories(TextOf(pool[1]))
  /\ answer[1] = "politics"

(* C8: when inference fails for one article while others are embedded by the
   model, no similarity computation raises and verify returns a result. *)
C8_EmbeddingFailureTolerated ==
  ( /\ Done
    /\ model
    /\ \E k \in 1..Len(FactualArticles) : TextOf(FactualArticles[k]) \in env.fail
    /\ \E k \in 1..Len(FactualArticles) : TextOf(FactualArticles[k]) \notin env.fail )
  => outcome.status = "returned"

(* C9: no partial output file is ever written: a dated file that exists holds
   a complete list. *)
C9_NoPartialFile == \A d \in Days : files[d].exists => files[d].complete

(* C10: a run writes the file keyed by the calendar day on which it runs. *)
C10_KeyedByRunDay == Returned => outcome.path = outcome.day

(* C11: verify does not modify its input: after a run every raw article
   passed in has exactly the fields and values it had before the run. *)
C11_InputUnchanged == Done => objects = pool

(* a pair has been compared, both ways round *)
Compared == phase = "done" /\ Len(answer) = 2 /\ Len(pool) = 2

(* the two embeddings of the pair compared *)
Embedding(k) == get_text_embedding(TextOf(pool[k]), model, env)

(* no pattern of extract_key_elements matches in the article *)
NoElements(article) ==
  \A i \in 1..Len(Fields) : extract_key_elements(article)[Fields[i]] = {}

(* C12: similarity is symmetric: calculate_similarity(a, b) and
   calculate_similarity(b, a) give the same value (or both raise). *)
C12_Symmetric ==
  Compared =>
    /\ answer[1].raised = answer[2].raised
    /\ FEq(answer[1].value, answer[2].value)

(* two articles whose sets of actors differ in size have been compared, and
   their similarity is strictly between 0 and 1 *)
C12_Witness ==
  /\ Compared
  /\ ~answer[1].raised
  /\ Cardinality(extract_key_elements(pool[1]).who)
       < Cardinality(extract_key_elements(pool[2]).who)
  /\ extract_key_elements(pool[1]).who \cap extract_key_elements(pool[2]).who # {}
  /\ FGt(answer[1].value, Frac(0, 1))
  /\ FGt(Frac(1, 1), answer[1].value)

(* C13: for every pair of articles and every pair of embedding vectors the
   embedder can return, calculate_similarity returns a value v with
   0 <= v <= 1. *)
C13_UnitRange ==
  Compared =>
    \A k \in 1..2 :
       ~answer[k].raised =>
          FGe(answer[k].value, Frac(0, 1)) /\ FGe(Frac(1, 1), answer[k].value)

(* C14: for two articles with no key elements, the absence of key elements
   does not lower their similarity below what the embedding similarity
   gives. *)
C14_NoElementsNoPenalty ==
  (Compared /\ NoElements(pool[1]) /\ NoElements(pool[2]) /\ ~answer[1].raised) =>
     FGe(answer[1].value, cosine_similarity(Embedding(1), Embedding(2)))

(* C15: within every accepted cluster the canonical article is the member
   that maximizes (len(body), timestamp) lexicographically: no member has a
   longer body, and no member with a body as long has a greater timestamp. *)
C15_CanonicalMaximal ==
  Returned =>
    \A c \in 1..Len(outcome.groups) :
       LET g == outcome.groups[c]
           b == outcome.verified[c]
       IN  /\ b \in Range(g)
           /\ \A m \in 1..Len(g) :
                \/ BodyLen(pool[g[m]]) < BodyLen(pool[b])
                \/ /\ BodyLen(pool[g[m]]) = BodyLen(pool[b])
                   /\ Timestamp(pool[g[m]]) <= Timestamp(pool[b])

(* a cluster whose canonical article has a longer body than a more recent
   member, and a more recent timestamp than a member with a body as long *)
C15_Witness ==
  /\ Returned
  /\ \E c \in 1..Len(outcome.groups) :
       LET g == outcome.groups[c]
           b == outcome.verified[c]
       IN  /\ \E m \in 1..Len(g) :
                /\ BodyLen(pool[g[m]]) < BodyLen(pool[b])
                /\ Timestamp(pool[g[m]]) > Timestamp(pool[b])
           /\ \E m \in 1..Len(g) :
                /\ g[m] # b
                /\ BodyLen(pool[g[m]]) = BodyLen(pool[b])
                /\ Timestamp(pool[g[m]]) < Timestamp(pool[b])

(* C16: the list returned by verify is sorted descending by (importance,
   timestamp): for every two positions i < j of the output,
   (importance_i, timestamp_i) >= (importance_j, timestamp_j). *)
C16_SortedDescending ==
  Returned =>
    \A i \in 1..Len(Result) : \A j \in (i + 1)..Len(Result) :
       \/ Result[i].importance > Result[j].importance
       \/ /\ Result[i].importance = Result[j].importance
          /\ Timestamp(Result[i]) >= Timestamp(Result[j])

(* an article of importance 3.0 is returned before one of importance 1.5
   that came before it in the input *)
C16_Witness ==
  /\ Returned
  /\ \E i \in 1..Len(Result) : \E j \in (i + 1)..Len(Result) :
       /\ Result[i].importance = 30
       /\ Result[j].importance = 15
       /\ outcome.final[i] > outcome.final[j]

(* the importance table of the specification, in tenths *)
TableImportance(category) ==
  CASE category = "crime" -> 30       [] category = "accident" -> 28
    [] category = "politics" -> 25    [] category = "development" -> 20
    [] category = "health" -> 18      [] category = "weather" -> 15
    [] category = "education" -> 13   [] category = "general" -> 10
    [] OTHER -> -1

(* C17: categorize assigns the category whose keyword list has the strictly
   highest number of substring hits in title+body, and the importance
   returned is the table value of the assigned category; an article hitting
   only crime keywords gets crime and 3.0. *)
C17_HighestCount ==
  (Done /\ answer # <<>> /\ Len(pool) = 1) =>
     LET text == TextOf(pool[1])
     IN  /\ \A c \in Range(CategoryOrder) :
              (\A d \in Range(CategoryOrder) \ {c} :
                  CategoryScore(d, text) < CategoryScore(c, text))
                => answer[1] = c
         /\ answer[2] = TableImportance(answer[1])
         /\ (/\ CategoryScore("crime", text) > 0
             /\ \A d \in Range(CategoryOrder) \ {"crime"} : CategoryScore(d, text) = 0)
              => answer = <<"crime", 30>>

(* politics has 2 hits and crime, listed before it, has 1: politics is
   assigned, with importance 2.5 *)
C17_Witness ==
  /\ Done /\ answer # <<>> /\ Len(pool) = 1
  /\ CategoryScore("politics", TextOf(pool[1])) = 2
  /\ CategoryScore("crime", TextOf(pool[1])) = 1
  /\ answer = <<"politics", 25>>

(* the two crime keywords of the specification's example and no other
   category's: crime, 3.0 *)
C17_WitnessCrimeOnly ==
  /\ Done /\ answer # <<>> /\ Len(pool) = 1
  /\ Range(TextOf(pool[1])) = {"giraftar", "hatya"}
  /\ answer = <<"crime", 30>>

(* C18: if no category keyword occurs in an article's title+body, categorize
   returns category general with importance 1.0. *)
C18_GeneralDefault ==
  (Done /\ answer # <<>> /\ Len(pool) = 1) =>
     ((\A c \in Range(CategoryOrder) : CategoryScore(c, TextOf(pool[1])) = 0)
        => answer = <<"general", 10>>)

(* an article with words and no category keyword has been categorized as
   general, 1.0 *)
C18_Witness ==
  /\ Done /\ Len(pool) = 1
  /\ TextOf(pool[1]) # <<>>
  /\ \A c \in Range(CategoryOrder) : CategoryScore(c, TextOf(pool[1])) = 0
  /\ answer = <<"general", 10>>

(* C19: verify on an empty input list raises no error from filtering,
   clustering, ranking or truncation, and returns an empty list (the only
   error left is that of the write). *)
C19_EmptyInput ==
  (Done /\ pool = <<>>) =>
     /\ outcome.error \in {"none", "OSError"}
     /\ outcome.factual = <<>> /\ outcome.groups = <<>>
     /\ outcome.verified = <<>> /\ outcome.final = <<>>
     /\ outcome.error = "none" => outcome.status = "returned" /\ Result = <<>>

(* verify_news([]) has returned [] and written an empty list *)
C19_Witness ==
  /\ Returned
  /\ pool = <<>>
  /\ Result = <<>>
  /\ files[outcome.path] = [exists |-> TRUE, complete |-> TRUE, records |-> <<>>]

(* the article lacks its body or its timestamp *)
Lacking(article) == {"body", "timestamp"} \ (DOMAIN article) # {}

(* the article with the empty string in the place of each field it lacks *)
Filled(article) ==
  [ title     |-> IF "title" \in DOMAIN article THEN article.title ELSE <<>>,
    body      |-> IF "body" \in DOMAIN article THEN article.body ELSE <<>>,
    timestamp |-> IF "timestamp" \in DOMAIN article THEN article.timestamp ELSE 0 ]
    @@ article

(* C20: an article with a missing body or a missing timestamp never causes
   an error in a run: the opinion filter, the similarity scorer, canonical
   selection and ranking treat the missing field as the empty string, and
   verify completes (as long as no embedding inference fails). *)
C20_MissingFieldsTolerated ==
  (Done /\ env.fail = {} /\ \E i \in 1..Len(pool) : Lacking(pool[i])) =>
     /\ outcome.status = "returned"
     /\ \A i \in 1..Len(pool) :
          /\ TextOf(pool[i]) = TextOf(Filled(pool[i]))
          /\ OpinionCount(pool[i]) = OpinionCount(Filled(pool[i]))
          /\ BodyLen(pool[i]) = BodyLen(Filled(pool[i]))
          /\ ~CanonicalKeyLess(pool[i], Filled(pool[i]))
          /\ ~CanonicalKeyLess(Filled(pool[i]), pool[i])
     /\ LET c == Compute([i \in 1..Len(pool) |-> Filled(pool[i])], model, env)
        IN  /\ outcome.factual = c.factual
            /\ outcome.groups = c.groups
            /\ outcome.verified = c.verified
            /\ outcome.final = c.final

(* a cluster is accepted in which one member lacks its body, and the
   canonical article, which is returned, lacks its timestamp *)
C20_Witness ==
  /\ Returned
  /\ Len(Result) = 1
  /\ "timestamp" \notin DOMAIN Result[1]
  /\ \E m \in 1..Len(outcome.groups[1]) : "body" \notin DOMAIN pool[outcome.groups[1][m]]

(* the first of the two calls, as the caller kept it *)
FirstCall == answer[1]

(* a call on the list the caller kept is over *)
Repeated == phase = "done" /\ answer # <<>>

(* C21: two calls of verify_news on one NewsVerifier with the same articles
   in the same order end alike: the second returns the list the first
   returned, same members, same fields, same order, or raises as the first
   did, whatever ran before and whether the second call is given the dicts
   the first call wrote to or fresh equal ones *)
C21_SameResultAgain ==
  Repeated =>
    /\ outcome.status = FirstCall.outcome.status
    /\ outcome.error = FirstCall.outcome.error
    /\ outcome.result = FirstCall.outcome.result

(* the second call was given the dicts the first call had written to and
   returned an article *)
C21_Witness ==
  /\ Repeated
  /\ outcome.status = "returned"
  /\ Result # <<>>
  /\ pool = FirstCall.objects
  /\ pool # FirstCall.pool

(* the verified articles the cap dropped, and those it kept *)
Dropped == {i \in Range(outcome.verified) : i \notin Range(outcome.final)}

Kept == Range(outcome.final)

(* the key (importance, timestamp) of a is strictly greater than that of b *)
KeyGreater(a, b) ==
  \/ a.importance > b.importance
  \/ a.importance = b.importance /\ Timestamp(a) > Timestamp(b)

(* C22: the cap is applied to the ranked list: no verified article that the
   cap dropped has a key (importance, timestamp) strictly greater than that
   of a returned one *)
C22_TopOnesReturned ==
  Returned =>
    \A d \in Dropped : \A k \in Kept : ~KeyGreater(objects[d], objects[k])

(* more clusters than the cap: a dropped article stood among the first
   TopN verified ones, and one standing later was returned instead *)
C22_Witness ==
  /\ Returned
  /\ \E m \in 1..Len(outcome.verified) :
       /\ m <= TopN
       /\ outcome.verified[m] \in Dropped
  /\ \E m \in 1..Len(outcome.verified) :
       /\ m > TopN
       /\ outcome.verified[m] \in Kept
       /\ \E d \in Dropped : KeyGreater(objects[outcome.verified[m]], objects[d])

(* every group the loop built, kept or dropped, as positions in the input *)
Formed == outcome.formed

(* the groups the loop kept *)
Accepted == outcome.groups

(* the grouping loop ran to its end *)
Grouped == phase = "done" /\ outcome.error # "ValueError"

(* article b of the input resembles article j above the threshold *)
Resembles(b, j) == Comparable(pool[b], pool[j]) /\ AboveThreshold(Sim(pool[b], pool[j]))

(* C23: every article is in at most one group, and a group of fewer than 3
   members is dropped for good: none of its articles is the seed or a member
   of another group, none is in the output *)
C23_OneGroupNoRetry ==
  Grouped =>
    /\ \A c \in 1..Len(Formed) : \A m, n \in 1..Len(Formed[c]) :
         m # n => Formed[c][m] # Formed[c][n]
    /\ \A c, d \in 1..Len(Formed) :
         c # d => Range(Formed[c]) \cap Range(Formed[d]) = {}
    /\ Accepted = SelectSeq(Formed, LAMBDA g : Len(g) >= MinSources)
    /\ \A c \in 1..Len(Formed) :
         Len(Formed[c]) < MinSources =>
           /\ \A d \in 1..Len(Accepted) : Range(Formed[c]) \cap Range(Accepted[d]) = {}
           /\ Range(Formed[c]) \cap Range(outcome.verified) = {}
           /\ Range(Formed[c]) \cap Range(outcome.final) = {}

(* an article was taken into a group of two, which was dropped; two later
   articles resemble it above the threshold, and nothing is returned *)
C23_Witness ==
  /\ Returned
  /\ Result = <<>>
  /\ \E c \in 1..Len(Formed) :
       /\ Len(Formed[c]) = 2
       /\ \E j, k \in 1..Len(pool) :
            /\ Formed[c][2] < j
            /\ j < k
            /\ Resembles(Formed[c][2], j)
            /\ Resembles(Formed[c][2], k)

(* C24: in every accepted cluster the seed is the member that comes first in
   the input, the members follow in input order, and every other member
   resembles the seed above the threshold *)
C24_SeedCentred ==
  Grouped =>
    \A c \in 1..Len(Accepted) :
      /\ \A m \in 2..Len(Accepted[c]) :
           /\ Accepted[c][1] < Accepted[c][m]
           /\ Accepted[c][m - 1] < Accepted[c][m]
           /\ Resembles(Accepted[c][1], Accepted[c][m])

(* an accepted cluster holds two members other than the seed whose
   similarity to each other is not above the threshold, either way round *)
C24_Witness ==
  /\ Returned
  /\ \E c \in 1..Len(Accepted) : \E m, n \in 2..Len(Accepted[c]) :
       /\ m < n
       /\ Comparable(pool[Accepted[c][m]], pool[Accepted[c][n]])
       /\ ~AboveThreshold(Sim(pool[Accepted[c][m]], pool[Accepted[c][n]]))
       /\ ~AboveThreshold(Sim(pool[Accepted[c][n]], pool[Accepted[c][m]]))

(* the c-th verified article, and the cluster it is the canonical one of *)
VerifiedArticle(c) == objects[outcome.verified[c]]

(* C25: for every verified article, sources holds the source of each member
   of its cluster, one entry per member, the seed's first and the others' in
   input order; source_count is the length of sources and the size of the
   cluster; the canonical article is a member and its own source stands in
   sources at its place *)
C25_SourcesOfMembers ==
  Grouped =>
    /\ Len(outcome.verified) = Len(Accepted)
    /\ \A c \in 1..Len(outcome.verified) :
         LET v == VerifiedArticle(c)
             g == Accepted[c]
         IN  /\ Len(v.sources) = Len(g)
             /\ \A m \in 1..Len(g) : v.sources[m] = pool[g[m]].source
             /\ \A m \in 2..Len(g) : g[1] < g[m] /\ g[m - 1] < g[m]
             /\ v.source_count = Len(v.sources)
             /\ v.source_count = Cardinality(Range(g))
             /\ \E m \in 1..Len(g) :
                  g[m] = outcome.verified[c] /\ v.sources[m] = v.source

(* a returned article that is not the seed of its cluster, whose sources
   name three different sites *)
C25_Witness ==
  /\ Returned
  /\ \E c \in 1..Len(outcome.verified) :
       /\ outcome.verified[c] \in Range(outcome.final)
       /\ outcome.verified[c] # Accepted[c][1]
       /\ Cardinality(Range(VerifiedArticle(c).sources)) >= 3

(* the overlap of the two articles compared in one field: |intersection| /
   |union| when both have elements in it, and whether both have *)
InBoth(field) ==
  /\ extract_key_elements(pool[1])[field] # {}
  /\ extract_key_elements(pool[2])[field] # {}

Overlap(field) ==
  IF InBoth(field)
  THEN Frac(Cardinality(extract_key_elements(pool[1])[field]
                          \cap extract_key_elements(pool[2])[field]),
            Cardinality(extract_key_elements(pool[1])[field]
                          \cup extract_key_elements(pool[2])[field]))
  ELSE Frac(0, 1)

(* the mean of the overlaps over the fields both articles have elements in,
   0 when there is no such field *)
MeanOverlap ==
  LET n == Cardinality({f \in {"who", "what", "where", "when"} : InBoth(f)})
  IN  IF n = 0 THEN Frac(0, 1)
      ELSE FDiv(FAdd(FAdd(Overlap("who"), Overlap("what")),
                     FAdd(Overlap("where"), Overlap("when"))), n)

(* C26: the similarity is 0.7 * cosine of the embeddings + 0.3 * element_sim,
   element_sim being the mean of the Jaccard overlaps over exactly the fields
   of who, what, where, when that are non-empty in both articles, and 0 when
   no field is non-empty in both *)
C26_WeightedSum ==
  (Compared /\ ~answer[1].raised) =>
     FEq(answer[1].value,
         FAdd(FMul(Frac(7, 10), cosine_similarity(Embedding(1), Embedding(2))),
              FMul(Frac(3, 10), MeanOverlap)))

(* a pair that shares three of the four fields, one of them in part *)
C26_Witness ==
  /\ Compared
  /\ ~answer[1].raised
  /\ Cardinality({f \in {"who", "what", "where", "when"} : InBoth(f)}) = 3
  /\ FEq(Overlap("who"), Frac(1, 2))
  /\ FEq(MeanOverlap, Frac(5, 6))

(* C27: within a run every vector get_text_embedding returns has the same
   length, whether the model or the fallback gave it, and equal texts get
   equal vectors *)
C27_OneLength ==
  Compared =>
    /\ Len(Embedding(1)) = Len(Embedding(2))
    /\ TextOf(pool[1]) = TextOf(pool[2]) => Embedding(1) = Embedding(2)

(* one pool has been grouped in two orders *)
Reordered == phase = "done" /\ Len(answer) = 2 /\ Len(pool) = Len(objects) /\ pool # <<>>

(* the similarity relation among the articles of the pool: symmetric, and
   transitive or not *)
Alike(a, b) == Comparable(a, b) /\ AboveThreshold(Sim(a, b))

SymmetricOnPool ==
  \A i, j \in 1..Len(pool) : Alike(pool[i], pool[j]) <=> Alike(pool[j], pool[i])

TransitiveOnPool ==
  \A i, j, k \in 1..Len(pool) :
    (Alike(pool[i], pool[j]) /\ Alike(pool[j], pool[k])) => Alike(pool[i], pool[k])

(* C28: clustering depends on the input order only through a similarity
   that is not transitive: where two orders of one pool give different
   accepted clusters, the similarity among its articles, which is symmetric,
   is not transitive *)
C28_OrderMattersWhenNotTransitive ==
  Reordered =>
    /\ SymmetricOnPool
    /\ (answer[1].clusters # answer[2].clusters \/ answer[1].verified # answer[2].verified)
         => ~TransitiveOnPool

(* a pool and two orders of it exist that give different accepted clusters,
   here none in one order and one in the other, under a similarity that is
   symmetric and not transitive *)
C28_Witness ==
  /\ Reordered
  /\ ~answer[1].raised
  /\ ~answer[2].raised
  /\ SymmetricOnPool
  /\ ~TransitiveOnPool
  /\ answer[1].clusters # answer[2].clusters
  /\ answer[1].verified # answer[2].verified

(* the fallback embedder served both articles compared *)
FallbackCompared == Compared /\ ~model

(* the hash proxies of the two texts compared *)
Proxy(k) == Embedding(k)[1]

(* C29: with the fallback embedder the embedding is the single integer
   hash(text) % 1000, never negative; the cosine is 1 when both proxies are
   non-zero, whatever the texts, and 0 when either is 0; so two articles with
   non-zero proxies are grouped exactly when their element_sim exceeds 1/3,
   and two articles are not grouped when a proxy is 0, identical texts
   included *)
C29_FallbackCosine ==
  FallbackCompared =>
    /\ ~answer[1].raised
    /\ \A k \in 1..2 :
         Len(Embedding(k)) = 1 /\ Proxy(k) >= 0 /\ Proxy(k) < HashRange
    /\ FEq(cosine_similarity(Embedding(1), Embedding(2)),
           IF Proxy(1) # 0 /\ Proxy(2) # 0 THEN Frac(1, 1) ELSE Frac(0, 1))
    /\ (Proxy(1) # 0 /\ Proxy(2) # 0) =>
         (AboveThreshold(answer[1].value) <=> FGt(MeanOverlap, Frac(1, 3)))
    /\ (Proxy(1) = 0 \/ Proxy(2) = 0) => ~AboveThreshold(answer[1].value)

(* two different texts with different non-zero proxies, whose element_sim
   exceeds 1/3, are above the threshold *)
C29_Witness ==
  /\ FallbackCompared
  /\ TextOf(pool[1]) # TextOf(pool[2])
  /\ Proxy(1) # 0
  /\ Proxy(2) # 0
  /\ Proxy(1) # Proxy(2)
  /\ FGt(MeanOverlap, Frac(1, 3))
  /\ AboveThreshold(answer[1].value)

(* audit_text_content has been called, and the arguments of its last call *)
Audited == pool # <<>> /\ DOMAIN pool[1] = {"text", "content_type"}

LastAudit == pool[1]

CountersAddUp ==
  audit_stats.total_audits
    = audit_stats.clean_items + audit_stats.flagged_summaries + audit_stats.flagged_mp3

(* C30: after any sequence of audit_text_content calls on summaries and
   audio transcriptions, total_audits is the sum of clean_items,
   flagged_summaries and flagged_mp3; a call with an empty text or one of
   white space only returns is_clean false with the one category
   empty_content, and leaves every counter as it was *)
C30_AuditCounters ==
  /\ [](CountersAddUp)
  /\ []((Audited /\ IsEmptyContent(LastAudit.text)) =>
          (~answer.is_clean /\ answer.flagged_categories = <<"empty_content">>))
  /\ [][IsEmptyContent(pool'[1].text) => audit_stats' = audit_stats]_vars

(* after a clean text, a flagged summary and a flagged transcription, a text
   of white space only has been audited *)
C30_Witness ==
  /\ Audited
  /\ audit_stats.clean_items >= 1
  /\ audit_stats.flagged_summaries >= 1
  /\ audit_stats.flagged_mp3 >= 1
  /\ LastAudit.text # <<>>
  /\ IsEmptyContent(LastAudit.text)
  /\ answer.flagged_categories = <<"empty_content">>

====
